---- MODULE Spec2Model ----
(***************************************************************************)
(* Model of the ESIL emulation driver (src/main.py, class Emulator).       *)
(*                                                                         *)
(* The driver talks to the radare2 engine through textual commands.  The   *)
(* model keeps the text: register values come back as hexadecimal text,    *)
(* Python integers are formatted as decimal text, bytes as hex pairs, and  *)
(* the engine parses the text it is given.  The engine's machine state is  *)
(* reg (registers) and mem (byte-addressed memory, 0 where never written). *)
(* log is the list of commands the driver issued in the current loop       *)
(* iteration; allocs is the list of blocks handed out by the Memory Stack. *)
(* All machine words of the model stay far below 2^31, so 32-bit wrap      *)
(* around is never reached and is not modelled.                            *)
(***************************************************************************)
EXTENDS Integers, Sequences, FiniteSets, TLC

VARIABLES reg, mem, cursor, allocs, instruction, last_instruction,
          pc, pending, log, iter, error

vars == <<reg, mem, cursor, allocs, instruction, last_instruction,
          pc, pending, log, iter, error>>

(***************************************************************************)
(* Bounds of the model.                                                    *)
(***************************************************************************)
\* number of iterations of the run loop that are explored
MaxIter == 5
\* number of words the engine may push below the initial stack pointer
MaxDepth == 3
\* longest string the engine's `ps` returns
MaxStrLen == 3

(***************************************************************************)
(* Program constants.                                                      *)
(***************************************************************************)
\* MemoryStack(0x100000, 0xf0000): base address and size of the region
STACK_ADDRESS == 1048576
STACK_SIZE == 983040
\* width in bytes of a cdecl stack slot / of the popped return address
SLOT == 4

(***************************************************************************)
(* Text: a sequence of one-character strings.                              *)
(***************************************************************************)
HexChars == <<"0","1","2","3","4","5","6","7","8","9","a","b","c","d","e","f">>

IsHexChar(c) == \E i \in 1..16 : HexChars[i] = c
IsDecChar(c) == \E i \in 1..10 : HexChars[i] = c
HexVal(c) == (CHOOSE i \in 1..16 : HexChars[i] = c) - 1

AllHex(t) == \A i \in 1..Len(t) : IsHexChar(t[i])
AllDec(t) == \A i \in 1..Len(t) : IsDecChar(t[i])

RECURSIVE FoldDigits(_, _, _)
FoldDigits(t, base, acc) ==
    IF t = <<>> THEN acc
    ELSE FoldDigits(Tail(t), base, acc * base + HexVal(Head(t)))

HasPrefix0x(t) == Len(t) >= 2 /\ t[1] = "0" /\ t[2] = "x"

\* Python int(value, 16); -1 stands for ValueError
parse_hex(t) ==
    LET d == IF HasPrefix0x(t) THEN SubSeq(t, 3, Len(t)) ELSE t
    IN  IF d # <<>> /\ AllHex(d) THEN FoldDigits(d, 16, 0) ELSE -1

\* the engine's reading of a number in a command: 0x.. is hexadecimal,
\* plain digits are decimal; -1 when the text is no number
r_num(t) ==
    IF HasPrefix0x(t)
    THEN (IF Len(t) > 2 /\ AllHex(SubSeq(t, 3, Len(t)))
          THEN FoldDigits(SubSeq(t, 3, Len(t)), 16, 0) ELSE -1)
    ELSE IF t # <<>> /\ AllDec(t) THEN FoldDigits(t, 10, 0) ELSE -1

RECURSIVE HexDigitsOf(_, _)
HexDigitsOf(n, w) ==
    IF w = 0 THEN <<>>
    ELSE Append(HexDigitsOf(n \div 16, w - 1), HexChars[(n % 16) + 1])

\* the engine prints a 32-bit value as 0x%08x
hex_text(n) == <<"0", "x">> \o HexDigitsOf(n, 8)

RECURSIVE DecDigitsOf(_)
DecDigitsOf(n) ==
    IF n < 10 THEN <<HexChars[n + 1]>>
    ELSE Append(DecDigitsOf(n \div 10), HexChars[(n % 10) + 1])

\* Python f'{n}' of an int
dec_text(n) == DecDigitsOf(n)

RECURSIVE bytes_hex(_)
\* Python bytes.hex()
bytes_hex(b) ==
    IF b = <<>> THEN <<>>
    ELSE <<HexChars[(Head(b) \div 16) + 1], HexChars[(Head(b) % 16) + 1]>>
         \o bytes_hex(Tail(b))

RECURSIVE HexPairs(_)
HexPairs(t) ==
    IF Len(t) < 2 THEN <<>>
    ELSE <<HexVal(t[1]) * 16 + HexVal(t[2])>> \o HexPairs(SubSeq(t, 3, Len(t)))

\* the bytes the engine's `wx` writes for a hexpair text; a text that is not
\* hexadecimal writes nothing; what happens to an odd trailing digit is the
\* engine's choice q (0: dropped, otherwise written as a byte of its own)
wx_bytes(t, q) ==
    IF ~AllHex(t) THEN <<>>
    ELSE IF Len(t) % 2 = 0 \/ q = 0 THEN HexPairs(t)
    ELSE Append(HexPairs(t), HexVal(t[Len(t)]))

(***************************************************************************)
(* Register names and the inputs of the model.                             *)
(***************************************************************************)
EIP == <<"e", "i", "p">>
ESP == <<"e", "s", "p">>
EAX == <<"e", "a", "x">>
EBX == <<"e", "b", "x">>
Registers == {EIP, ESP, EAX, EBX}

\* addresses of the emulated binary
MainAddr == 4096
EndAddr == 4104
AddAddr == 8192
NearAddr == 8193
DupAddr == 8208
NoDefAddr == 8224
StrAddr == 12288

\* a memory target of a result, as the stub names it
OutTarget == <<"0", "x", "3", "0", "1", "0">>
HiText == <<"h", "i">>
HiBytes == <<104, 105>>

\* half of the region: two such blocks fill the Memory Stack exactly
HalfBlock == STACK_SIZE \div 2

\* values an unparsable `aer reg=text` may leave in the register, and the
\* engine's choice for an odd trailing digit of `wx`
EngineChoices == {0, 1}

\* the argument whose slot read the engine answers without a value (0: none)
ReplyFaults == {0, 2}

\* addresses the engine's single step may move the program counter to
CodeAddrs == {MainAddr, EndAddr, AddAddr, NearAddr, DupAddr, NoDefAddr}
\* words the engine's single step may push
PushVals == {MainAddr, StrAddr, 5}

\* the entry function's last instruction, as the binary defines it
LastAddrs == {EndAddr, DupAddr}

\* the relocation entries of the binary (engine query `irj`)
relocations ==
    { [vaddr |-> AddAddr, name |-> "add"],
      [vaddr |-> DupAddr, name |-> "dup"],
      [vaddr |-> NoDefAddr, name |-> "nodef"] }

(***************************************************************************)
(* Collaborators whose code is outside main.py: RelocationTable, Api,      *)
(* MemoryStack, is_address.                                                *)
(***************************************************************************)
\* RelocationTable.contains_vaddr: exact match on the virtual address
contains_vaddr(a) == \E r \in relocations : r.vaddr = a
\* RelocationTable.get_relocation(a).get_function_name()
get_function_name(a) == (CHOOSE r \in relocations : r.vaddr = a).name

Arg(n, t) == [name |-> n, typed |-> t, num |-> 0, text |-> <<>>]

\* the stub registry: declared argument schema of every registered symbol
api_functions ==
    [ add |-> <<Arg("a", "NUMBER"), Arg("b", "NUMBER")>>,
      dup |-> <<Arg("s", "STRING"), Arg("raw", "BYTES")>> ]

\* Api.contains_function
contains_function(f) == f \in DOMAIN api_functions
\* Api.get_function_arguments: the schema, values unset
get_function_arguments(f) == api_functions[f]

Res(tg, t, n, s, b, ref) ==
    [target |-> tg, typed |-> t, num |-> n, text |-> s, bytes |-> b,
     to_reference |-> ref]

\* Api.emulate_function: the result lists a stub may return.  "add" returns
\* the sum of its arguments in eax; "dup" stands for the stubs that
\* materialise values in memory.
emulate_function(f, arguments) ==
    IF f = "add"
    THEN { <<Res(EAX, "NUMBER", arguments[1].num + arguments[2].num,
                 <<>>, <<>>, FALSE)>>,
           <<Res(EAX, "NUMBER", 1, <<>>, <<>>, FALSE),
             Res(EAX, "NUMBER", 2, <<>>, <<>>, FALSE)>>,
           <<Res(EAX, "NUMBER", HalfBlock, <<>>, <<>>, TRUE),
             Res(EBX, "NUMBER", HalfBlock, <<>>, <<>>, TRUE)>>,
           <<Res(EAX, "NUMBER", SLOT, <<>>, <<>>, TRUE)>>,
           <<Res(EAX, "NUMBER", 0, <<>>, <<>>, TRUE)>> }
    ELSE { <<>>,
           <<Res(EAX, "BYTES", 0, <<>>, HiBytes, TRUE)>>,
           <<Res(EAX, "BYTES", 0, <<>>, <<65>>, TRUE),
             Res(EBX, "NUMBER", 7, <<>>, <<>>, FALSE)>>,
           <<Res(EAX, "BYTES", 0, <<>>, <<>>, TRUE)>>,
           <<Res(EAX, "STRING", 0, HiText, <<>>, TRUE)>>,
           <<Res(EAX, "STRING", 0, arguments[1].text, <<>>, FALSE)>>,
           <<Res(OutTarget, "BYTES", 0, <<>>, HiBytes, FALSE)>>,
           <<Res(OutTarget, "BYTES", 0, <<>>, HiBytes, TRUE)>> }

\* utilities.is_address: the target is the text of a number, not a name
is_address(target) == target # <<>> /\ IsDecChar(target[1])

(***************************************************************************)
(* The machine record threaded through one handler: engine registers and   *)
(* memory, the Memory Stack, the command log and the pending exception.    *)
(***************************************************************************)
Machine ==
    [reg |-> reg, mem |-> mem, cursor |-> cursor, allocs |-> allocs,
     log |-> log, error |-> error]

Ev == [op |-> "", fn |-> "", name |-> <<>>, num |-> 0, text |-> <<>>,
       args |-> <<>>]

Logged(m, e) == [m EXCEPT !.log = Append(@, e)]

\* MemoryStack.malloc: a bump allocator; the block starts at the cursor
malloc_address(m) == STACK_ADDRESS + m.cursor

malloc(m, size) ==
    IF m.cursor + size > STACK_SIZE
    THEN [Logged(m, [Ev EXCEPT !.op = "malloc_fail", !.num = size])
            EXCEPT !.error = "OutOfMemory"]
    ELSE [Logged(m, [Ev EXCEPT !.op = "malloc", !.num = size,
                               !.text = dec_text(malloc_address(m))])
            EXCEPT !.cursor = @ + size,
                   !.allocs = Append(@, [addr |-> malloc_address(m),
                                         size |-> size])]

(***************************************************************************)
(* Engine memory.                                                          *)
(***************************************************************************)
ReadByte(mm, a) == IF a \in DOMAIN mm THEN mm[a] ELSE 0

ReadWord(mm, a) ==
    ReadByte(mm, a) + 256 * ReadByte(mm, a + 1)
      + 65536 * ReadByte(mm, a + 2) + 16777216 * ReadByte(mm, a + 3)

WriteBytes(mm, a, b) ==
    [x \in DOMAIN mm \cup {a + i - 1 : i \in 1..Len(b)} |->
        IF x >= a /\ x < a + Len(b) THEN b[x - a + 1] ELSE mm[x]]

WordBytes(v) ==
    <<v % 256, (v \div 256) % 256, (v \div 65536) % 256,
      (v \div 16777216) % 256>>

ReadBytes(mm, a, n) == [i \in 1..n |-> ReadByte(mm, a + i - 1)]

CharOf(b) == IF b = 104 THEN "h" ELSE IF b = 105 THEN "i" ELSE "?"

RECURSIVE ReadString(_, _, _)
\* the engine's `ps`: the characters up to the first zero byte
ReadString(mm, a, n) ==
    IF n = 0 \/ ReadByte(mm, a) = 0 THEN <<>>
    ELSE <<CharOf(ReadByte(mm, a))>> \o ReadString(mm, a + 1, n - 1)

(***************************************************************************)
(* Emulator: the commands of the driver (src/main.py).                     *)
(***************************************************************************)
\* __get_register: `aer reg`, the value as hexadecimal text
get_register(m, register) == hex_text(m.reg[register])

\* the engine's `aer reg=text`: q is the engine's choice for a text that is
\* no number; a name that is no register changes nothing
aer_set(m, register, text, q) ==
    LET v == IF r_num(text) >= 0 THEN r_num(text) ELSE q
    IN  IF register \in DOMAIN m.reg
        THEN [m EXCEPT !.reg = [@ EXCEPT ![register] = v]]
        ELSE m

\* Python formatting of a value inside a command: bytes are given as
\* bytes.hex(), an int in decimal, a str as it is
Fmt(value) ==
    IF value.kind = "bytes" THEN bytes_hex(value.bytes)
    ELSE IF value.kind = "int" THEN dec_text(value.num)
    ELSE value.text

IntVal(n) == [kind |-> "int", num |-> n, text |-> <<>>, bytes |-> <<>>]
StrVal(t) == [kind |-> "str", num |-> 0, text |-> t, bytes |-> <<>>]
BytesVal(b) == [kind |-> "bytes", num |-> 0, text |-> <<>>, bytes |-> b]

\* the Python value a result carries
result_value(r) ==
    IF r.typed = "NUMBER" THEN IntVal(r.num)
    ELSE IF r.typed = "STRING" THEN StrVal(r.text)
    ELSE BytesVal(r.bytes)

\* __set_register
set_register(m, register, value, q) ==
    Logged(aer_set(m, register, Fmt(value), q),
           [Ev EXCEPT !.op = "aer_set", !.name = register,
                      !.text = Fmt(value)])

\* __write_bytes: `wx hex @address`
write_bytes(m, value, address, q) ==
    LET a == r_num(address)
        b == wx_bytes(Fmt(value), q)
        w == IF a >= 0 THEN [m EXCEPT !.mem = WriteBytes(@, a, b)] ELSE m
    IN  Logged(w, [Ev EXCEPT !.op = "wx", !.name = address,
                             !.text = Fmt(value)])

\* the last word of an engine reply that carries no value
NoValueReply == <<"?">>

\* __get_value_from_address: `pf x @address`, the last word of the reply;
\* sound is FALSE when the engine's reply does not end in the value
get_value_from_address(m, address, sound) ==
    IF sound THEN hex_text(ReadWord(m.mem, address)) ELSE NoValueReply

\* __get_string_from_address: `ps @address`
get_string_from_address(m, address) ==
    IF r_num(address) >= 0 THEN ReadString(m.mem, r_num(address), MaxStrLen)
    ELSE <<>>

\* a marshaling that forgets the return address on top of the stack
slot_address_noret(esp, i) == esp + SLOT * (i - 1)

\* line 122: the stack slot of argument i (1-based here, the code's i is i - 1)
slot_address(esp, i) == esp + SLOT + SLOT * (i - 1)

\* a coercion that leaves a BYTES argument unset
coerce_skip_bytes(st, i, value, read, mstr) ==
    IF st.args[i].typed = "STRING"
    THEN [st EXCEPT !.args[i].text = mstr,
                    !.log = Append(read, [Ev EXCEPT !.op = "ps",
                                                    !.text = value])]
    ELSE IF st.args[i].typed = "NUMBER"
    THEN (IF parse_hex(value) >= 0
          THEN [st EXCEPT !.args[i].num = parse_hex(value), !.log = read]
          ELSE [st EXCEPT !.error = "ValueError", !.log = read])
    ELSE [st EXCEPT !.log = read]

\* a coercion that swallows the ValueError and passes 0 to the stub
coerce_lenient(st, i, value, read, mstr) ==
    IF st.args[i].typed = "STRING"
    THEN [st EXCEPT !.args[i].text = mstr,
                    !.log = Append(read, [Ev EXCEPT !.op = "ps",
                                                    !.text = value])]
    ELSE IF st.args[i].typed = "NUMBER"
    THEN [st EXCEPT !.args[i].num =
                       IF parse_hex(value) >= 0 THEN parse_hex(value) ELSE 0,
                    !.log = read]
    ELSE [st EXCEPT !.args[i].text = value, !.log = read]

\* lines 124-129: the value of argument i from the text of its slot; mstr is
\* the string `ps` finds at that text, read is the log after the slot read
coerce(st, i, value, read, mstr) ==
    IF st.args[i].typed = "STRING"
    THEN [st EXCEPT !.args[i].text = mstr,
                    !.log = Append(read, [Ev EXCEPT !.op = "ps",
                                                    !.text = value])]
    ELSE IF st.args[i].typed = "NUMBER"
    THEN (IF parse_hex(value) >= 0
          THEN [st EXCEPT !.args[i].num = parse_hex(value), !.log = read]
          ELSE [st EXCEPT !.error = "ValueError", !.log = read])
    ELSE [st EXCEPT !.args[i].text = value, !.log = read]

RECURSIVE fill_from(_, _, _, _, _)
\* the loop of __fill_function_arguments from index i on; st carries the
\* filled arguments, the log and the error; g is the index of the argument
\* whose slot read gets a reply without value (0: none)
fill_from(m, st, esp, i, g) ==
    IF i > Len(st.args) \/ st.error # "none" THEN st
    ELSE
      LET address == slot_address(esp, i)
          value == get_value_from_address(m, address, i # g)
          read == Append(st.log, [Ev EXCEPT !.op = "pf", !.num = address,
                                            !.text = value])
      IN  fill_from(m, coerce(st, i, value, read,
                              get_string_from_address(m, value)),
                    esp, i + 1, g)

\* __fill_function_arguments
fill_function_arguments(m, arguments, g) ==
    LET esp == parse_hex(get_register(m, ESP))
        st0 == [args |-> arguments,
                log |-> Append(m.log, [Ev EXCEPT !.op = "aer", !.name = ESP]),
                error |-> m.error]
    IN  fill_from(m, st0, esp, 1, g)

\* a materialization that does not look at the to_reference flag
materialize_always(m, result, q) ==
    IF result.typed = "NUMBER" THEN malloc(m, result.num)
    ELSE IF result.typed = "BYTES"
    THEN (LET a == malloc(m, Len(result.bytes))
          IN  IF a.error # "none" THEN a
              ELSE write_bytes(a, BytesVal(result.bytes),
                               dec_text(malloc_address(m)), q))
    ELSE m

\* a BYTES block that is one byte short of the value
materialize_short(m, result, q) ==
    IF ~result.to_reference THEN m
    ELSE IF result.typed = "NUMBER" THEN malloc(m, result.num)
    ELSE IF result.typed = "BYTES"
    THEN (LET a == malloc(m, IF result.bytes = <<>> THEN 0
                             ELSE Len(result.bytes) - 1)
          IN  IF a.error # "none" THEN a
              ELSE write_bytes(a, BytesVal(result.bytes),
                               dec_text(malloc_address(m)), q))
    ELSE m

\* a NUMBER block of one word that receives the number
materialize_word(m, result, q) ==
    IF ~result.to_reference THEN m
    ELSE IF result.typed = "NUMBER"
    THEN (LET a == malloc(m, SLOT)
          IN  IF a.error # "none" THEN a
              ELSE write_bytes(a, BytesVal(WordBytes(result.num)),
                               dec_text(malloc_address(m)), q))
    ELSE IF result.typed = "BYTES"
    THEN (LET a == malloc(m, Len(result.bytes))
          IN  IF a.error # "none" THEN a
              ELSE write_bytes(a, BytesVal(result.bytes),
                               dec_text(malloc_address(m)), q))
    ELSE m

\* lines 96-103: the block a to_reference result is given; only NUMBER and
\* BYTES are handled, any other type falls through
materialize(m, result, q) ==
    IF ~result.to_reference THEN m
    ELSE IF result.typed = "NUMBER" THEN malloc(m, result.num)
    ELSE IF result.typed = "BYTES"
    THEN (LET a == malloc(m, Len(result.bytes))
          IN  IF a.error # "none" THEN a
              ELSE write_bytes(a, BytesVal(result.bytes),
                               dec_text(malloc_address(m)), q))
    ELSE m

\* a result application that forgets to replace the bytes by the address
effective_value_keep(m, result) ==
    IF result.to_reference /\ result.typed = "NUMBER"
    THEN IntVal(malloc_address(m))
    ELSE result_value(result)

\* lines 98 and 103: result.value after the to_reference handling
effective_value(m, result) ==
    IF result.to_reference /\ result.typed \in {"NUMBER", "BYTES"}
    THEN IntVal(malloc_address(m))
    ELSE result_value(result)

\* a result application with the two branches of line 106 exchanged
apply_function_result_swapped(m, result, q) ==
    LET m1 == materialize(m, result, q)
        value == effective_value(m, result)
    IN  IF m1.error # "none" THEN m1
        ELSE IF is_address(result.target)
        THEN set_register(m1, result.target, value, q)
        ELSE write_bytes(m1, value, result.target, q)

\* a result application that writes the target although malloc failed
apply_function_result_unchecked(m, result, q) ==
    LET m1 == materialize(m, result, q)
        value == effective_value(m, result)
    IN  IF is_address(result.target)
        THEN write_bytes(m1, value, result.target, q)
        ELSE set_register(m1, result.target, value, q)

\* one pass of the loop body of __apply_function_results (lines 95-109)
apply_function_result(m, result, q) ==
    LET m1 == materialize(m, result, q)
        value == effective_value(m, result)
    IN  IF m1.error # "none" THEN m1
        ELSE IF is_address(result.target)
        THEN write_bytes(m1, value, result.target, q)
        ELSE set_register(m1, result.target, value, q)

\* a return that loads the program counter but leaves the stack pointer
execute_return_nopop(m) ==
    LET ret == ReadWord(m.mem, m.reg[ESP])
        m1 == [m EXCEPT !.reg = [@ EXCEPT ![EIP] = ret]]
        eip == get_register(m1, EIP)
        m2 == [m1 EXCEPT !.reg = [@ EXCEPT ![EIP] = r_num(eip)]]
    IN  [m2 EXCEPT !.log = m.log \o <<[Ev EXCEPT !.op = "ae_ret"],
                                      [Ev EXCEPT !.op = "aepc",
                                                 !.text = eip]>>]

\* __execute_return and __refresh_program_counter: the ESIL expression
\* esp,[4],eip,=,4,esp,+= and then `aepc` with the text of eip
execute_return(m) ==
    LET ret == ReadWord(m.mem, m.reg[ESP])
        m1 == [m EXCEPT !.reg = [@ EXCEPT ![EIP] = ret,
                                          ![ESP] = @ + SLOT]]
        eip == get_register(m1, EIP)
        m2 == [m1 EXCEPT !.reg = [@ EXCEPT ![EIP] = r_num(eip)]]
    IN  [m2 EXCEPT !.log = m.log \o <<[Ev EXCEPT !.op = "ae_ret"],
                                      [Ev EXCEPT !.op = "aepc",
                                                 !.text = eip]>>]

\* a view disassembled at the engine's seek, which stays at main
get_instruction_seek(m) == MainAddr

\* __get_instruction: `pdj 1 @eip`, the address of the instruction view
get_instruction(m) == m.reg[EIP]

\* the engine's single step `aes`, for a program that moves to address a and
\* pushes the words of push
aes(m, a, push) ==
    IF push = <<>> THEN [m EXCEPT !.reg = [@ EXCEPT ![EIP] = a]]
    ELSE [m EXCEPT !.reg = [@ EXCEPT ![EIP] = a, ![ESP] = @ - SLOT],
                   !.mem = WriteBytes(@, m.reg[ESP] - SLOT,
                                      WordBytes(push[1]))]

(***************************************************************************)
(* The state after construction of the Emulator and the run loop.          *)
(***************************************************************************)
StackTop == STACK_ADDRESS + STACK_SIZE \div 2

Init ==
    /\ reg = [r \in Registers |->
                IF r = EIP THEN MainAddr
                ELSE IF r = ESP THEN StackTop ELSE 0]
    /\ mem = [a \in {StrAddr, StrAddr + 1} |->
                IF a = StrAddr THEN 104 ELSE 105]
    /\ cursor = 0
    /\ allocs = <<>>
    /\ instruction = MainAddr
    /\ last_instruction \in LastAddrs
    /\ pc = "head"
    /\ pending = <<>>
    /\ log = <<>>
    /\ iter = 0
    /\ error = "none"

Commit(m) ==
    /\ reg' = m.reg
    /\ mem' = m.mem
    /\ cursor' = m.cursor
    /\ allocs' = m.allocs
    /\ log' = m.log
    /\ error' = m.error

\* the machine at entry to __step: the log starts anew with the address
Entered ==
    [Machine EXCEPT !.log = <<[Ev EXCEPT !.op = "step",
                                         !.num = instruction]>>]

\* a loop that steps before it tests for the terminal address
AtHead_untested == pc = "head" /\ iter < MaxIter

\* line 133: the loop condition holds (within the explored iterations)
AtHead == pc = "head" /\ iter < MaxIter /\ instruction # last_instruction

\* a loop condition that compares with < instead of !=
run_exit_ge ==
    /\ pc = "head"
    /\ instruction >= last_instruction
    /\ pc' = "done"
    /\ UNCHANGED <<reg, mem, cursor, allocs, instruction, last_instruction,
                   pending, log, iter, error>>

\* run: the loop condition fails
run_exit ==
    /\ pc = "head"
    /\ instruction = last_instruction
    /\ pc' = "done"
    /\ UNCHANGED <<reg, mem, cursor, allocs, instruction, last_instruction,
                   pending, log, iter, error>>

\* __step, else branch: one engine step, then __get_instruction.  The
\* console lines of __step and __emulate_function (lines 73, 76-78, 81-90)
\* only read the state and are left out of every action.
step_aes ==
    /\ AtHead
    /\ ~contains_vaddr(instruction)
    /\ \E a \in CodeAddrs, push \in {<<>>} \cup {<<v>> : v \in PushVals} :
          /\ push # <<>> => reg[ESP] > StackTop - SLOT * MaxDepth
          /\ LET m == Logged(aes(Entered, a, push), [Ev EXCEPT !.op = "aes"])
             IN  /\ Commit(Logged(m, [Ev EXCEPT !.op = "pdj"]))
                 /\ instruction' = get_instruction(m)
    /\ iter' = iter + 1
    /\ UNCHANGED <<last_instruction, pc, pending>>

\* a step without the else: the engine also steps after the interception
step_undefined_and_aes ==
    /\ AtHead
    /\ contains_vaddr(instruction)
    /\ ~contains_function(get_function_name(instruction))
    /\ \E a \in CodeAddrs :
          LET m == Logged(aes(execute_return(Entered), a, <<>>),
                          [Ev EXCEPT !.op = "aes"])
          IN  /\ Commit(Logged(m, [Ev EXCEPT !.op = "pdj"]))
              /\ instruction' = get_instruction(m)
    /\ iter' = iter + 1
    /\ UNCHANGED <<last_instruction, pc, pending>>

\* a step that synthesizes the return only for registered symbols
step_undefined_noreturn ==
    /\ AtHead
    /\ contains_vaddr(instruction)
    /\ ~contains_function(get_function_name(instruction))
    /\ Commit(Logged(Entered, [Ev EXCEPT !.op = "pdj"]))
    /\ instruction' = get_instruction(Entered)
    /\ iter' = iter + 1
    /\ UNCHANGED <<last_instruction, pc, pending>>

\* __step, relocation hit, symbol absent from the registry: the call is
\* skipped, the return is synthesized, then __get_instruction
step_undefined ==
    /\ AtHead
    /\ contains_vaddr(instruction)
    /\ ~contains_function(get_function_name(instruction))
    /\ LET m == execute_return(Entered)
       IN  /\ Commit(Logged(m, [Ev EXCEPT !.op = "pdj"]))
           /\ instruction' = get_instruction(m)
    /\ iter' = iter + 1
    /\ UNCHANGED <<last_instruction, pc, pending>>

\* __step, relocation hit, registered symbol: __emulate_function up to the
\* return of the stub (lines 83-87); a ValueError ends the run
step_emulate ==
    /\ AtHead
    /\ contains_vaddr(instruction)
    /\ contains_function(get_function_name(instruction))
    /\ \E g \in ReplyFaults :
        LET f == get_function_name(instruction)
            st == fill_function_arguments(Entered, get_function_arguments(f),
                                          g)
        IN  IF st.error # "none"
            THEN /\ Commit([Entered EXCEPT !.log = st.log,
                                           !.error = st.error])
                 /\ pc' = "aborted"
                 /\ pending' = <<>>
            ELSE \E results \in emulate_function(f, st.args) :
                   /\ Commit([Entered EXCEPT !.log =
                         Append(st.log, [Ev EXCEPT !.op = "invoke", !.fn = f,
                                                   !.args = st.args])])
                   /\ pc' = "apply"
                   /\ pending' = results
    /\ iter' = iter + 1
    /\ UNCHANGED <<instruction, last_instruction>>

\* a result loop that walks the list from its end
apply_result_reversed ==
    /\ pc = "apply"
    /\ pending # <<>>
    /\ \E q \in EngineChoices :
         LET m == apply_function_result(Machine, pending[Len(pending)], q)
         IN  /\ Commit(m)
             /\ pc' = IF m.error # "none" THEN "aborted" ELSE "apply"
    /\ pending' = SubSeq(pending, 1, Len(pending) - 1)
    /\ UNCHANGED <<instruction, last_instruction, iter>>

\* __apply_function_results: the next result; an OutOfMemory ends the run
apply_result ==
    /\ pc = "apply"
    /\ pending # <<>>
    /\ \E q \in EngineChoices :
         LET m == apply_function_result(Machine, Head(pending), q)
         IN  /\ Commit(m)
             /\ pc' = IF m.error # "none" THEN "aborted" ELSE "apply"
    /\ pending' = Tail(pending)
    /\ UNCHANGED <<instruction, last_instruction, iter>>

\* the end of the interception: __execute_return, then __get_instruction
step_return ==
    /\ pc = "apply"
    /\ pending = <<>>
    /\ LET m == execute_return(Machine)
       IN  /\ Commit(Logged(m, [Ev EXCEPT !.op = "pdj"]))
           /\ instruction' = get_instruction(m)
    /\ pc' = "head"
    /\ UNCHANGED <<last_instruction, pending, iter>>

Next ==
    \/ run_exit
    \/ step_aes
    \/ step_undefined
    \/ step_emulate
    \/ apply_result
    \/ step_return

Spec == Init /\ [][Next]_vars

TypeOK ==
    /\ pc \in {"head", "apply", "done", "aborted"}
    /\ error \in {"none", "OutOfMemory", "ValueError"}
    /\ cursor \in 0..STACK_SIZE
    /\ iter \in 0..MaxIter

(***************************************************************************)
(* Helpers of the properties.                                              *)
(***************************************************************************)
Count(l, op) == Cardinality({i \in 1..Len(l) : l[i].op = op})
Positions(l, ops) == {i \in 1..Len(l) : l[i].op \in ops}
RelocVaddrs == {r.vaddr : r \in relocations}
\* the loop head is at a relocation target whose symbol has no stub
UnknownHit ==
    /\ pc = "head"
    /\ instruction # last_instruction
    /\ \E r \in relocations :
          r.vaddr = instruction /\ r.name \notin DOMAIN api_functions
\* the next result to apply
Applying == pc = "apply" /\ pending # <<>>
InRegion(a) == STACK_ADDRESS <= a /\ a < STACK_ADDRESS + STACK_SIZE

(***************************************************************************)
(* C1: run() stops at the first loop head whose current address is the     *)
(* terminal address recorded at startup, and a run that ends without a     *)
(* fatal error never stops at a loop head with another address, however    *)
(* many interceptions came before.                                         *)
(***************************************************************************)
C1_Termination ==
    /\ [](pc = "done" => instruction = last_instruction /\ error = "none")
    /\ [][/\ last_instruction' = last_instruction
          /\ (pc = "head" /\ instruction = last_instruction) => pc' = "done"
          /\ (pc # "done" /\ pc' = "done") =>
                (pc = "head" /\ instruction = last_instruction)]_vars

\* the run ended at the terminal address after an interception that
\* allocated two blocks and a later engine step
C1_Witness ==
    /\ pc = "done" /\ Len(allocs) = 2
    /\ instruction = last_instruction /\ Count(log, "aes") = 1

(***************************************************************************)
(* C2: intercepting a relocation target whose symbol has no stub changes   *)
(* only the program counter (the 4-byte value at the stack pointer) and    *)
(* the stack pointer (plus 4); other registers, memory and the allocator   *)
(* cursor stay, no stub is invoked and the run is back at the loop head.   *)
(***************************************************************************)
C2_UnknownFrame ==
    [][UnknownHit =>
          /\ reg'[EIP] = ReadWord(mem, reg[ESP])
          /\ reg'[ESP] = reg[ESP] + 4
          /\ \A r \in Registers \ {EIP, ESP} : reg'[r] = reg[r]
          /\ mem' = mem
          /\ cursor' = cursor /\ allocs' = allocs
          /\ Count(log', "invoke") = 0
          /\ pc' = "head" /\ error' = "none"]_vars

\* the unknown symbol was intercepted and returned to the pushed address,
\* with earlier results still in place
C2_Witness ==
    /\ pc = "head" /\ log # <<>> /\ log[1].num = NoDefAddr
    /\ Count(log, "ae_ret") = 1
    /\ reg[EIP] = MainAddr /\ reg[EAX] # 0 /\ cursor > 0

(***************************************************************************)
(* C3: for a registered stub declaring n arguments, argument i is read     *)
(* from the slot at SP + 4 + 4*i, exactly n slots are read, a NUMBER       *)
(* argument is the integer the slot's hexadecimal text denotes, and the    *)
(* stub receives the arguments in declared order.                          *)
(***************************************************************************)
C3_Marshaling ==
    (pc = "apply" /\ log[Len(log)].op = "invoke") =>
       LET call == log[Len(log)]
           schema == api_functions[call.fn]
           reads == SelectSeq(log, LAMBDA e : e.op = "pf")
       IN  /\ Len(reads) = Len(schema)
           /\ Len(call.args) = Len(schema)
           /\ \A i \in 1..Len(schema) :
                /\ reads[i].num = reg[ESP] + 4 + 4 * (i - 1)
                /\ call.args[i].name = schema[i].name
                /\ call.args[i].typed = schema[i].typed
                /\ schema[i].typed = "NUMBER" =>
                     call.args[i].num
                        = ReadWord(mem, reg[ESP] + 4 + 4 * (i - 1))

\* add(5, 0x3000) called with both arguments and the return address pushed
C3_Witness ==
    /\ pc = "apply" /\ log[Len(log)].op = "invoke"
    /\ log[Len(log)].fn = "add"
    /\ log[Len(log)].args[1].num = 5
    /\ log[Len(log)].args[2].num = StrAddr
    /\ ReadWord(mem, reg[ESP]) = MainAddr

(***************************************************************************)
(* C4: applying a BYTES result with to_reference set whose value has       *)
(* length L advances the cursor by exactly L, stores the L bytes at the    *)
(* allocated address and writes that address, not the bytes, to the        *)
(* target register.                                                        *)
(***************************************************************************)
C4_BytesReference ==
    [][(/\ Applying
        /\ Head(pending).to_reference
        /\ Head(pending).typed = "BYTES"
        /\ error' = "none") =>
          LET r == Head(pending)
              a == STACK_ADDRESS + cursor
          IN  /\ cursor' = cursor + Len(r.bytes)
              /\ allocs' = Append(allocs, [addr |-> a, size |-> Len(r.bytes)])
              /\ ReadBytes(mem', a, Len(r.bytes)) = r.bytes
              /\ r.target \in Registers =>
                   /\ reg'[r.target] = a
                   /\ \A x \in DOMAIN mem' \ (a .. a + Len(r.bytes) - 1) :
                        x \in DOMAIN mem /\ mem'[x] = mem[x]]_vars

\* the two bytes "hi" stand in a second block and eax points to them
C4_Witness ==
    /\ pc = "apply" /\ pending = <<>>
    /\ Len(allocs) = 2 /\ allocs[2].size = 2
    /\ reg[EAX] = allocs[2].addr
    /\ reg[EAX] > STACK_ADDRESS
    /\ ReadBytes(mem, reg[EAX], 2) = HiBytes

(***************************************************************************)
(* C5: after the interception of a stub that returns a to_reference        *)
(* result into a register, the register holds an address inside the        *)
(* Memory Stack and the bytes from that address on are the content the     *)
(* stub returned.  Stated for each application of such a result.           *)
(***************************************************************************)
CharCode(c) == IF c = "h" THEN 104 ELSE IF c = "i" THEN 105 ELSE 63
\* the content a result carries, as bytes; the number of a NUMBER result
\* is the size of its block (C9) and not a content
Content(r) ==
    IF r.typed = "BYTES" THEN r.bytes
    ELSE IF r.typed = "STRING"
    THEN [i \in 1..Len(r.text) |-> CharCode(r.text[i])]
    ELSE <<>>

C5_ReferenceInRegister ==
    [][(/\ Applying
        /\ Head(pending).to_reference
        /\ Head(pending).target \in Registers
        /\ error' = "none") =>
          LET r == Head(pending)
          IN  /\ InRegion(reg'[r.target])
              /\ ReadBytes(mem', reg'[r.target], Len(Content(r)))
                    = Content(r)]_vars

(***************************************************************************)
(* C6: the addresses returned by the Memory Stack are strictly increasing, *)
(* the blocks are pairwise disjoint and inside the region, the cursor      *)
(* stays within 0..size and never decreases, and an allocation that would  *)
(* exceed the capacity fails with OutOfMemory.                             *)
(***************************************************************************)
\* the size a to_reference result asks the Memory Stack for; -1 when the
\* result makes no allocation
Requested(r) ==
    IF ~r.to_reference THEN -1
    ELSE IF r.typed = "NUMBER" THEN r.num
    ELSE IF r.typed = "BYTES" THEN Len(r.bytes)
    ELSE -1

AllocatorCommon ==
    /\ [](/\ 0 <= cursor /\ cursor <= STACK_SIZE
          /\ \A i \in 1..Len(allocs) :
                /\ STACK_ADDRESS <= allocs[i].addr
                /\ allocs[i].addr + allocs[i].size
                      <= STACK_ADDRESS + STACK_SIZE
          /\ \A i, j \in 1..Len(allocs) :
                i < j => allocs[i].addr + allocs[i].size <= allocs[j].addr)
    /\ [][/\ cursor' >= cursor
          /\ (Applying /\ Requested(Head(pending)) >= 0
                /\ cursor + Requested(Head(pending)) > STACK_SIZE) =>
                (/\ error' = "OutOfMemory" /\ pc' = "aborted"
                 /\ cursor' = cursor /\ allocs' = allocs
                 /\ reg' = reg /\ mem' = mem)
          /\ (Applying /\ Requested(Head(pending)) >= 0
                /\ cursor + Requested(Head(pending)) <= STACK_SIZE) =>
                (/\ error' = "none"
                 /\ allocs' = Append(allocs,
                       [addr |-> STACK_ADDRESS + cursor,
                        size |-> Requested(Head(pending))]))]_vars

\* the claim as stated: every later block starts at a greater address
C6_StrictlyIncreasing ==
    \A i, j \in 1..Len(allocs) : i < j => allocs[i].addr < allocs[j].addr

\* the amended claim: a later block never starts before the end of an
\* earlier one, so addresses increase strictly after every non-empty block
C6_Allocator ==
    /\ AllocatorCommon
    /\ [](\A i, j \in 1..Len(allocs) :
             (i < j /\ allocs[i].size > 0) => allocs[i].addr < allocs[j].addr)

\* the region was filled exactly by two blocks and the next request failed
C6_Witness ==
    /\ pc = "aborted" /\ error = "OutOfMemory"
    /\ Len(allocs) = 2 /\ cursor = STACK_SIZE
    /\ allocs[1].addr < allocs[2].addr

(***************************************************************************)
(* C7: in an iteration at an address other than the terminal one, an       *)
(* interception is performed exactly when the address is the virtual       *)
(* address of a relocation entry; otherwise exactly one engine step is     *)
(* issued; never both, and at most one stub is invoked.                    *)
(***************************************************************************)
C7_InterceptOrStep ==
    log # <<>> =>
       LET a == log[1].num
           intercepted == Count(log, "ae_ret") + Count(log, "invoke")
                            + Count(log, "aer") > 0
       IN  /\ log[1].op = "step"
           /\ a \in RelocVaddrs <=> intercepted
           /\ a \notin RelocVaddrs <=> Count(log, "aes") = 1
           /\ Count(log, "aes") <= 1
           /\ Count(log, "invoke") <= 1
           /\ ~(intercepted /\ Count(log, "aes") > 0)
           /\ (pc \in {"head", "done"} /\ intercepted) =>
                 Count(log, "ae_ret") = 1

\* an address next to a relocation entry was stepped, not intercepted
C7_Witness ==
    /\ pc = "head" /\ log # <<>> /\ log[1].num = NearAddr
    /\ Count(log, "aes") = 1 /\ Count(log, "ae_ret") = 0

(***************************************************************************)
(* C8: every interception, of a registered or an unregistered symbol,      *)
(* ends with exactly one synthesized return after all results are          *)
(* applied: the program counter becomes the 4-byte value at the stack      *)
(* pointer, the stack pointer grows by 4, and the driver is back at the    *)
(* loop head.                                                              *)
(***************************************************************************)
C8_SynthesizedReturn ==
    /\ [][(UnknownHit \/ (pc = "apply" /\ pending = <<>>)) =>
             /\ reg'[EIP] = ReadWord(mem, reg[ESP])
             /\ reg'[ESP] = reg[ESP] + 4
             /\ \A r \in Registers \ {EIP, ESP} : reg'[r] = reg[r]
             /\ mem' = mem
             /\ instruction' = reg'[EIP]
             /\ pc' = "head"]_vars
    /\ [][(pc = "apply" /\ pc' = "head") => pending = <<>>]_vars
    /\ [](pc = "apply" => Count(log, "ae_ret") = 0)
    /\ []((pc = "head" /\ log # <<>> /\ log[1].num \in RelocVaddrs) =>
             /\ Count(log, "ae_ret") = 1
             /\ \A i \in Positions(log, {"ae_ret"}) :
                  \A k \in Positions(log, {"pf", "ps", "invoke", "malloc",
                                           "wx", "aer_set"}) : k < i)

\* a registered stub wrote two results and then returned to the caller
C8_Witness ==
    /\ pc = "head" /\ Count(log, "invoke") = 1
    /\ Count(log, "aer_set") = 2 /\ Count(log, "ae_ret") = 1
    /\ reg[EIP] = MainAddr /\ reg[EBX] = 7

(***************************************************************************)
(* C9: applying a NUMBER result with to_reference set allocates a block    *)
(* of a fixed word size, whatever the number, writes the number into the   *)
(* block and writes the block's address to the target.                     *)
(***************************************************************************)
NumberReference ==
    /\ Applying
    /\ Head(pending).to_reference
    /\ Head(pending).typed = "NUMBER"
    /\ Head(pending).target \in Registers

C10_StringReference ==
    [][(Applying /\ Head(pending).to_reference /\ error' = "none") =>
          LET r == Head(pending)
              a == STACK_ADDRESS + cursor
              last == log'[Len(log')]
          IN  /\ last.op \in {"aer_set", "wx"}
              /\ last.name = r.target
              /\ last.text # Fmt(result_value(r))
              /\ r.typed = "STRING" =>
                   /\ cursor' = cursor + Len(r.text)
                   /\ ReadBytes(mem', a, Len(r.text)) = Content(r)
                   /\ last.text = dec_text(a)]_vars

(***************************************************************************)
(* C11: if the slot of a NUMBER argument cannot be parsed as a hexadecimal *)
(* integer the run aborts: the stub is not invoked, no result is applied,  *)
(* no return is synthesized, no further engine step is issued, and         *)
(* registers, memory and the allocator cursor are as at entry.             *)
(***************************************************************************)
\* the current iteration read a NUMBER slot whose text is no hexadecimal
MalformedNumberRead ==
    /\ log # <<>>
    /\ \E r \in relocations :
         /\ r.vaddr = log[1].num
         /\ r.name \in DOMAIN api_functions
         /\ LET reads == SelectSeq(log, LAMBDA e : e.op = "pf")
            IN  \E k \in 1..Len(reads) :
                  /\ k <= Len(api_functions[r.name])
                  /\ api_functions[r.name][k].typed = "NUMBER"
                  /\ reads[k].text = NoValueReply

C11_MalformedOperand ==
    /\ [](MalformedNumberRead =>
            /\ pc = "aborted" /\ error = "ValueError"
            /\ pending = <<>>
            /\ Positions(log, {"invoke", "malloc", "wx", "aer_set",
                               "ae_ret", "aepc", "aes", "pdj"}) = {})
    /\ [][(pc = "head" /\ pc' = "aborted") =>
             /\ error' = "ValueError"
             /\ reg' = reg /\ mem' = mem
             /\ cursor' = cursor /\ allocs' = allocs
             /\ instruction' = instruction]_vars
    /\ [][pc # "aborted"]_vars

\* add was intercepted after earlier results, its second slot gave no
\* number, and the run stopped with the first slot read
C11_Witness ==
    /\ pc = "aborted" /\ error = "ValueError"
    /\ MalformedNumberRead
    /\ Count(log, "pf") = 2
    /\ cursor > 0 /\ reg[EAX] # 0

(***************************************************************************)
(* C12: if the allocation for a to_reference result fails with             *)
(* OutOfMemory the run aborts: nothing is written to the result's target,  *)
(* no later result of the stub is applied, no return is synthesized and    *)
(* the loop issues no further step.                                        *)
(***************************************************************************)
Writes(l) == Positions(l, {"aer_set", "wx", "ae_ret", "aepc", "aes", "pdj"})

C12_OutOfMemory ==
    /\ [][(/\ Applying
           /\ Requested(Head(pending)) >= 0
           /\ cursor + Requested(Head(pending)) > STACK_SIZE) =>
             /\ pc' = "aborted" /\ error' = "OutOfMemory"
             /\ reg' = reg /\ mem' = mem
             /\ Writes(log') = Writes(log)
             /\ instruction' = instruction]_vars
    /\ [](error = "OutOfMemory" =>
            /\ pc = "aborted"
            /\ log[Len(log)].op = "malloc_fail"
            /\ Count(log, "ae_ret") = 0)
    /\ [][error # "OutOfMemory"]_vars

\* the region was full when a stub returned two results: the first one's
\* block was refused, eax and ebx keep the earlier addresses and the second
\* result is still pending
C12_Witness ==
    /\ pc = "aborted" /\ error = "OutOfMemory"
    /\ pending # <<>> /\ pending[1].target = EBX
    /\ reg[EAX] = STACK_ADDRESS
    /\ reg[EBX] = STACK_ADDRESS + HalfBlock

(***************************************************************************)
(* C13: each applied result causes exactly one write to its target: to a   *)
(* memory address the value's bytes are written there and no register is   *)
(* set; otherwise the register named by the target is set and no memory    *)
(* is written at the target.  Apart from the block written for a           *)
(* to_reference result no other register or memory location changes.       *)
(* The bytes are compared for a value that is bytes; the encoding of a     *)
(* numeric value is the subject of C19.                                    *)
(***************************************************************************)
\* the commands of log' issued by the step
Issued == SubSeq(log', Len(log) + 1, Len(log'))
\* the addresses of the block of the next result, if it has one
Block ==
    IF Requested(Head(pending)) >= 0
    THEN STACK_ADDRESS + cursor
           .. STACK_ADDRESS + cursor + Requested(Head(pending)) - 1
    ELSE {}
\* the memory of the next state differs from the current one only in S
MemChangedWithin(S) ==
    \A x \in (DOMAIN mem \cup DOMAIN mem') \ S :
        ReadByte(mem', x) = ReadByte(mem, x)

C14_CursorFrame ==
    [][(cursor' # cursor \/ allocs' # allocs) =>
          /\ Applying
          /\ Head(pending).to_reference
          /\ pc' \in {"apply", "aborted"}]_vars

\* a one-byte block was handed out, then a result without the flag was
\* applied and the cursor stayed
C14_Witness ==
    /\ pc = "apply" /\ pending = <<>>
    /\ cursor = 1 /\ reg[EBX] = 7
    /\ log[Len(log)].op = "aer_set" /\ log[Len(log)].name = EBX

(***************************************************************************)
(* C15: in the interception of a registered stub all argument slot reads   *)
(* come before the stub is invoked, the stub is invoked exactly once, all  *)
(* register and memory writes for results come after it and in the order   *)
(* the stub returned them, so that a later result to the same target       *)
(* overwrites an earlier one, and the return is synthesized last.          *)
(***************************************************************************)
\* the current iteration intercepts a registered stub
RegisteredEpisode ==
    /\ log # <<>>
    /\ \E r \in relocations :
         r.vaddr = log[1].num /\ r.name \in DOMAIN api_functions

C15_EpisodeOrder ==
    /\ [](RegisteredEpisode =>
            LET reads == Positions(log, {"aer", "pf", "ps"})
                calls == Positions(log, {"invoke"})
                writes == Positions(log, {"malloc", "malloc_fail", "wx",
                                          "aer_set"})
                rets == Positions(log, {"ae_ret"})
            IN  /\ Cardinality(calls) = IF error = "ValueError" THEN 0 ELSE 1
                /\ \A i \in reads : \A k \in calls : i < k
                /\ \A i \in writes : \E k \in calls : k < i
                /\ \A i \in rets : \A k \in reads \cup calls \cup writes :
                      k < i
                /\ Cardinality(rets) = IF pc \in {"head", "done"} THEN 1 ELSE 0
                /\ pc = "apply" =>
                     \A x \in {EAX, EBX} :
                        LET set == {i \in Positions(log, {"aer_set"}) :
                                      log[i].name = x /\ r_num(log[i].text) >= 0}
                        IN  set # {} =>
                              reg[x] = r_num(log[CHOOSE i \in set :
                                               \A k \in set : k <= i].text))
    /\ [][(Applying /\ error' = "none") =>
             /\ pending' = Tail(pending)
             /\ log'[Len(log')].op \in {"wx", "aer_set"}
             /\ log'[Len(log')].name = Head(pending).target
             /\ ~Head(pending).to_reference =>
                   log'[Len(log')].text = Fmt(result_value(Head(pending)))]_vars
    /\ [][(pc = "apply" /\ pc' = "head") =>
             /\ pending = <<>>
             /\ log'[Len(log') - 2].op = "ae_ret"]_vars

\* the stub returned 1 and then 2 for eax: both were written after the
\* call, in that order, and eax holds 2
C15_Witness ==
    /\ pc = "apply" /\ pending = <<>>
    /\ Count(log, "pf") = 2 /\ Count(log, "invoke") = 1
    /\ Count(log, "aer_set") = 2
    /\ log[Len(log) - 1].text = <<"1">> /\ log[Len(log)].text = <<"2">>
    /\ reg[EAX] = 2

(***************************************************************************)
(* C16: at every loop head of run(), the first one and the one after a     *)
(* synthesized return included, the address of the current instruction     *)
(* view equals the engine's program counter.                               *)
(***************************************************************************)
C16_ViewFollowsCounter ==
    pc \in {"head", "done"} => instruction = reg[EIP]

\* after a synthesized return to the pushed word 0x3000, which is no
\* address the engine ever stepped to, the view is at 0x3000
C16_Witness ==
    /\ pc = "head" /\ Count(log, "invoke") = 1 /\ Count(log, "ae_ret") = 1
    /\ instruction = StrAddr /\ reg[EIP] = StrAddr

(***************************************************************************)
(* C17: for an argument declared BYTES the driver does not read the        *)
(* argument's stack slot and does not derive its value from the stack;     *)
(* only NUMBER and STRING arguments cause a slot read.                     *)
(***************************************************************************)
\* the stub has just been invoked
Invoked == pc = "apply" /\ log[Len(log)].op = "invoke"
SlotReads == SelectSeq(log, LAMBDA e : e.op = "pf")

\* the claim as stated
C17_BytesNotRead ==
    Invoked =>
       LET call == log[Len(log)]
           schema == api_functions[call.fn]
       IN  \A i \in 1..Len(schema) :
              schema[i].typed = "BYTES" =>
                 /\ \A k \in 1..Len(SlotReads) :
                       SlotReads[k].num # reg[ESP] + 4 + 4 * (i - 1)
                 /\ call.args[i].text = <<>>

\* the amended claim: the slot of a BYTES argument is read like any other
\* and the text of the reply is the argument's value, uncoerced; only a
\* STRING argument causes a further read
C17_BytesGetSlotText ==
    Invoked =>
       LET call == log[Len(log)]
           schema == api_functions[call.fn]
       IN  /\ Len(SlotReads) = Len(schema)
           /\ Count(log, "ps")
                 = Cardinality({i \in 1..Len(schema) :
                                  schema[i].typed = "STRING"})
           /\ \A i \in 1..Len(schema) :
                 schema[i].typed = "BYTES" =>
                    /\ SlotReads[i].num = reg[ESP] + 4 + 4 * (i - 1)
                    /\ call.args[i].text = SlotReads[i].text
                    /\ call.args[i].text # <<>>
                    /\ call.args[i].text # NoValueReply =>
                          parse_hex(call.args[i].text)
                             = ReadWord(mem, reg[ESP] + 4 + 4 * (i - 1))

\* dup("hi", raw) was called with the word 5 in the slot of raw: the stub
\* received the text 0x00000005
C17_Witness ==
    /\ Invoked /\ log[Len(log)].fn = "dup"
    /\ log[Len(log)].args[1].text = HiText
    /\ log[Len(log)].args[2].text = hex_text(5)
    /\ ReadWord(mem, reg[ESP] + 8) = 5

(***************************************************************************)
(* C18: the termination test precedes the relocation lookup: if the        *)
(* terminal address is itself a relocation target, reaching it ends the    *)
(* run without an interception, so no stub is invoked and no return is     *)
(* synthesized there, and the instruction there is never executed.         *)
(***************************************************************************)
C18_TestBeforeLookup ==
    /\ []((last_instruction \in RelocVaddrs /\ log # <<>>) =>
             log[1].num # last_instruction)
    /\ [][(/\ pc = "head"
           /\ instruction = last_instruction
           /\ last_instruction \in RelocVaddrs) =>
             /\ pc' = "done"
             /\ log' = log /\ reg' = reg /\ mem' = mem
             /\ cursor' = cursor /\ pending' = pending]_vars

\* the run ended at the relocation target of dup, reached by an engine
\* step, with the stack pointer and the stack untouched by any return
C18_Witness ==
    /\ pc = "done" /\ last_instruction = DupAddr
    /\ reg[EIP] = DupAddr
    /\ log # <<>> /\ Count(log, "aes") = 1 /\ Count(log, "ae_ret") = 0
    /\ reg[ESP] = StackTop - SLOT

(***************************************************************************)
(* C19: when a to_reference result has a memory address as its target,     *)
(* the bytes written at the target are the byte encoding of the allocated  *)
(* block's 32-bit address, not the digits of its decimal text and not the  *)
(* original value.                                                         *)
(***************************************************************************)
C19_AddressBytes ==
    [][(/\ Applying
        /\ Head(pending).to_reference
        /\ Head(pending).typed \in {"NUMBER", "BYTES"}
        /\ r_num(Head(pending).target) >= 0
        /\ error' = "none") =>
          ReadBytes(mem', r_num(Head(pending).target), SLOT)
             = WordBytes(STACK_ADDRESS + cursor)]_vars

====
